---- MODULE Spec2Model ----
(***************************************************************************)
(* Model of internal/ml/scripts/embedding_inference.py: the module-level   *)
(* import of the model backend, the global MODEL_CACHE, load_model,        *)
(* generate_embeddings (real path and hash-based fallback path) and main.  *)
(*                                                                         *)
(* The module body runs top to bottom (ImportBackend, DefineModule).  The  *)
(* file is then either the script of the process (main runs once and the   *)
(* process ends) or a module imported by a host that calls load_model and  *)
(* generate_embeddings any number of times, one call after the other.      *)
(*                                                                         *)
(* Three specifications share the variables:                               *)
(*  - Spec: the process, each call of load_model, generate_embeddings and   *)
(*    main taken as one step;                                              *)
(*  - FallbackBody: one iteration of the fallback loop of lines 45-63, one  *)
(*    statement at a time, for texts with their real SHA-256 digests;      *)
(*  - Concurrent: load_model called by two threads of one host process,    *)
(*    one statement at a time.                                             *)
(*                                                                         *)
(* Representation.                                                         *)
(*  - A Python str built by an f-string is the sequence of its pieces.     *)
(*  - A dict is a function on its keys (a record); d.get(k, default) is    *)
(*    Get(d, k, default).                                                  *)
(*  - A float of the fallback path is kept exact: a list of floats is the  *)
(*    record [num, den2] that stands for the list num[i] / sqrt(den2).     *)
(*    The raw value byte/255.0 - 0.5 = (2*byte - 255)/510 has den2 = 510^2;*)
(*    dividing by the norm sqrt(sum num[i]^2)/510 gives den2 = sum num^2.  *)
(*    Rounding of IEEE doubles is not modelled.                            *)
(*  - The backend (sentence_transformers) is opaque: its constructor and   *)
(*    its encode either return or raise, chosen by the environment.        *)
(*  - time.time() - start_time is a value the environment chooses.         *)
(***************************************************************************)
EXTENDS Integers, Sequences, FiniteSets, TLC

VARIABLES
    env,                              \* what the process runs in (fixed for a run)
    pc,                               \* position of the module body / process
    SENTENCE_TRANSFORMERS_AVAILABLE,  \* line 16 / 18
    MODEL_CACHE,                      \* line 22: model_name -> handle
    stdout,                           \* the lines print() has written, in order
    constructed,                      \* SentenceTransformer objects constructed so far
    loaderOk,                         \* per identifier: loader invocations that returned
    encoded,                          \* <<text, vector>> pairs the fallback path produced
    last                              \* the last call made and what it did

vars == <<env, pc, SENTENCE_TRANSFORMERS_AVAILABLE, MODEL_CACHE, stdout,
          constructed, loaderOk, encoded, last>>

----------------------------------------------------------------------------
(* Bounds of the model *)

\* longest texts list of a call or request
MaxTexts == 2
\* largest elapsed time (in clock ticks) a call can measure
MaxElapsed == 1
\* cap on the SentenceTransformer objects one process constructs
MaxObjects == 4

(* Program constants *)

\* range(384), line 53
Dimension == 384

DefaultModel == "all-MiniLM-L6-v2"
MockFallback == "mock_fallback"

\* a str that is not encodable as UTF-8 (json.loads accepts "\ud800")
LoneSurrogate == "<U+D800>"

\* the texts of the model: two that UTF-8 encodes, and the lone surrogate
Encodable == {"", "hello"}
Texts == Encodable \cup {LoneSurrogate}
ModelNames == {DefaultModel, "unknown-model", MockFallback}

\* what the backend's constructor / encode can do on one call
LoadFailures == {"model not found"}
EncodeFailures == {"encode failed"}
LoadHow == {"ok"} \cup LoadFailures
EncodeHow == {"ok"} \cup EncodeFailures

RECURSIVE ListsOf(_, _)
ListsOf(S, n) ==
    IF n = 0 THEN {<<>>}
    ELSE LET shorter == ListsOf(S, n - 1)
         IN  shorter \cup {Append(l, x) : l \in {s \in shorter : Len(s) = n - 1}, x \in S}

\* the texts lists of the model: every list of encodable texts up to MaxTexts,
\* and the list of the lone surrogate
TextLists == ListsOf(Encodable, MaxTexts) \cup {<<LoneSurrogate>>}

----------------------------------------------------------------------------
(* Python values *)

Return(v) == [kind |-> "return", value |-> v]
Raise(msg) == [kind |-> "raise", msg |-> msg]

Get(d, k, default) == IF k \in DOMAIN d THEN d[k] ELSE default

Put(d, k, v) == [x \in DOMAIN d \cup {k} |-> IF x = k THEN v ELSE d[x]]

EmptyDict == [x \in {} |-> 0]

\* sum of s[i]^2 for i in lo..hi (halving keeps the evaluation shallow)
RECURSIVE SumSq(_, _, _)
SumSq(s, lo, hi) ==
    IF lo > hi THEN 0
    ELSE IF lo = hi THEN s[lo] * s[lo]
    ELSE LET mid == (lo + hi) \div 2
         IN  SumSq(s, lo, mid) + SumSq(s, mid + 1, hi)

----------------------------------------------------------------------------
(* The fallback path of generate_embeddings, lines 44-63 *)

\* str.encode(): UTF-8; a lone surrogate is not encodable (UnicodeEncodeError)
Utf8Encodable(text) == text # LoneSurrogate

\* the texts whose SHA-256 digest the model knows; together the digests hold
\* every byte value 0..255 (the digest of "2392" holds 0 and 255)
HashedTexts ==
    {"", "hello", "world", "449", "849", "1031", "2392", "1754",
     "764", "191", "454", "1486", "1893", "1598", "137"}

\* hashlib.sha256(text.encode()).digest(): the 32 bytes of the texts of the model
Sha256Digest(text) ==
    CASE text = "hello" -> <<44, 242, 77, 186, 95, 176, 163, 14, 38, 232, 59, 42, 197, 185, 226, 158, 27, 22, 30, 92, 31, 167, 66, 94, 115, 4, 51, 98, 147, 139, 152, 36>>
      [] text = "world" -> <<72, 110, 164, 98, 36, 209, 187, 79, 182, 128, 243, 79, 124, 154, 217, 106, 143, 36, 236, 136, 190, 115, 234, 142, 90, 108, 101, 38, 14, 156, 184, 167>>
      [] text = "" -> <<227, 176, 196, 66, 152, 252, 28, 20, 154, 251, 244, 200, 153, 111, 185, 36, 39, 174, 65, 228, 100, 155, 147, 76, 164, 149, 153, 27, 120, 82, 184, 85>>
      [] text = "449" -> <<74, 48, 162, 25, 169, 215, 102, 63, 221, 53, 192, 165, 223, 73, 200, 213, 80, 24, 241, 58, 12, 83, 225, 13, 216, 239, 232, 247, 228, 204, 93, 137>>
      [] text = "849" -> <<18, 233, 103, 202, 15, 54, 141, 13, 133, 17, 81, 140, 88, 198, 146, 145, 70, 101, 11, 177, 186, 188, 228, 68, 130, 99, 230, 119, 34, 221, 1, 97>>
      [] text = "1031" -> <<62, 52, 181, 220, 67, 75, 207, 49, 134, 240, 137, 211, 98, 105, 28, 250, 193, 177, 114, 49, 96, 31, 47, 64, 45, 199, 144, 21, 190, 135, 141, 131>>
      [] text = "2392" -> <<74, 27, 28, 89, 248, 173, 117, 0, 86, 61, 197, 56, 114, 253, 195, 129, 10, 206, 218, 171, 18, 255, 35, 5, 160, 211, 1, 36, 235, 180, 173, 251>>
      [] text = "1754" -> <<166, 212, 9, 107, 36, 205, 74, 210, 78, 166, 222, 203, 69, 199, 31, 245, 76, 32, 120, 116, 162, 121, 39, 19, 200, 4, 169, 179, 132, 214, 110, 53>>
      [] text = "764" -> <<170, 238, 12, 229, 26, 191, 8, 73, 230, 139, 37, 122, 185, 125, 131, 163, 109, 157, 8, 41, 22, 185, 57, 205, 16, 18, 242, 125, 127, 107, 184, 115>>
      [] text = "191" -> <<112, 38, 7, 66, 194, 149, 33, 84, 200, 78, 46, 169, 246, 139, 26, 115, 151, 244, 155, 109, 52, 61, 161, 237, 40, 64, 147, 192, 189, 114, 199, 66>>
      [] text = "454" -> <<72, 248, 155, 99, 6, 119, 194, 203, 183, 14, 43, 160, 91, 247, 163, 99, 50, 148, 227, 104, 164, 91, 220, 44, 125, 249, 216, 50, 249, 224, 201, 65>>
      [] text = "1486" -> <<36, 138, 162, 189, 208, 3, 41, 32, 172, 158, 95, 106, 211, 108, 53, 5, 73, 218, 6, 126, 254, 175, 123, 74, 12, 125, 140, 33, 42, 177, 182, 165>>
      [] text = "1893" -> <<186, 168, 166, 236, 186, 187, 213, 239, 2, 34, 41, 131, 178, 58, 79, 189, 29, 121, 76, 202, 104, 199, 103, 224, 125, 103, 175, 45, 159, 70, 231, 55>>
      [] text = "1598" -> <<25, 16, 36, 196, 125, 108, 43, 60, 36, 165, 112, 50, 107, 126, 41, 240, 150, 82, 236, 139, 194, 187, 23, 121, 217, 87, 131, 232, 117, 61, 18, 219>>
      [] text = "137" -> <<216, 14, 174, 110, 150, 209, 72, 179, 178, 171, 187, 198, 118, 0, 119, 182, 108, 78, 160, 113, 248, 71, 218, 181, 115, 213, 7, 163, 44, 77, 153, 165>>

\* a mapping centred on 128: (byte - 128) / 255.0
ByteValueCentred(byte) == 2 * byte - 256

\* line 55: (byte / 255.0) - 0.5, as the numerator of (2*byte - 255) / 510
ByteValue(byte) == 2 * byte - 255

\* lines 52-56: the raw 384-dimensional embedding of a digest
RawEmbedding(hash_bytes) ==
    [num |-> [i \in 1..Dimension |->
                 ByteValue(hash_bytes[((i - 1) % Len(hash_bytes)) + 1])],
     den2 |-> 510 * 510]

\* a normalisation whose test never holds (norm > 1 for these vectors)
NormalizeNever(embedding) == embedding

\* lines 59-61: L2 normalisation; the norm is sqrt(sum num^2 / den2)
Normalize(embedding) ==
    LET s == SumSq(embedding.num, 1, Len(embedding.num))
    IN  IF s > 0 THEN [num |-> embedding.num, den2 |-> s] ELSE embedding

\* lines 46-61: what the loop body does for each text of the model (the
\* vectors are computed once and looked up by MockEmbedding)
MockEmbeddings ==
    [text \in Texts |->
        IF ~Utf8Encodable(text)
        THEN Raise(<<"'utf-8' codec can't encode character: surrogates not allowed">>)
        ELSE Return(Normalize(RawEmbedding(Sha256Digest(text))))]

\* lines 46-61: the loop body for one text
MockEmbedding(text) == MockEmbeddings[text]

\* the same loop with `embedding = []` hoisted out of the loop over texts: the
\* i-th vector then also holds the components of the texts before it
RECURSIVE CarriedRaw(_, _)
CarriedRaw(texts, i) ==
    IF i = 0 THEN <<>>
    ELSE CarriedRaw(texts, i - 1) \o RawEmbedding(Sha256Digest(texts[i])).num

RECURSIVE FallbackLoopCarried(_, _, _)
FallbackLoopCarried(texts, i, embeddings) ==
    IF i > Len(texts) THEN Return(embeddings)
    ELSE IF ~Utf8Encodable(texts[i]) THEN MockEmbedding(texts[i])
    ELSE FallbackLoopCarried(texts, i + 1,
             Append(embeddings,
                    Normalize([num |-> CarriedRaw(texts, i), den2 |-> 510 * 510])))

\* the same loop inserting each vector at the front of the list
RECURSIVE FallbackLoopReversed(_, _, _)
FallbackLoopReversed(texts, i, embeddings) ==
    IF i > Len(texts) THEN Return(embeddings)
    ELSE LET e == MockEmbedding(texts[i])
         IN  IF e.kind = "raise" THEN e
             ELSE FallbackLoopReversed(texts, i + 1, <<e.value>> \o embeddings)

\* lines 44-63: for text in texts: ... embeddings.append(embedding)
RECURSIVE FallbackLoop(_, _, _)
FallbackLoop(texts, i, embeddings) ==
    IF i > Len(texts) THEN Return(embeddings)
    ELSE LET e == MockEmbedding(texts[i])
         IN  IF e.kind = "raise" THEN e
             ELSE FallbackLoop(texts, i + 1, Append(embeddings, e.value))

----------------------------------------------------------------------------
(* The backend: sentence_transformers.SentenceTransformer *)

\* SentenceTransformer(path): a new object, or the failure `how`.  Without the
\* import of line 15 the name is unbound and the call raises NameError.
SentenceTransformer(path, how) ==
    IF ~SENTENCE_TRANSFORMERS_AVAILABLE
    THEN Raise(<<"name 'SentenceTransformer' is not defined">>)
    ELSE IF how = "ok"
    THEN Return([path |-> path, object |-> constructed + 1])
    ELSE Raise(<<how>>)

\* model.encode(texts, convert_to_numpy=True): one row per text, in the order
\* of the texts, or the failure `how`
RECURSIVE EncodeRows(_, _, _)
EncodeRows(model, texts, i) ==
    IF i > Len(texts) THEN <<>>
    ELSE <<[ndarray |-> [path |-> model.path, text |-> texts[i]]]>>
             \o EncodeRows(model, texts, i + 1)

Encode(model, texts, how) ==
    IF how = "ok" THEN Return(EncodeRows(model, texts, 1)) ELSE Raise(<<how>>)

\* emb.tolist(): the floats of a numpy row as a Python list
ToList(emb) == [list |-> emb.ndarray]

----------------------------------------------------------------------------
(* load_model, lines 24-35 *)

\* lines 28-31: the path the constructor is given
ModelPath(model_name) ==
    IF model_name = DefaultModel
    THEN "sentence-transformers/all-MiniLM-L6-v2"
    ELSE model_name

\* what a call of load_model leaves: the cache after it, what it returned or
\* raised, and the constructor calls it made
LoadResult(cache, outcome, loader) ==
    [cache |-> cache, outcome |-> outcome, loader |-> loader]

\* a membership test that never finds the entry
InCacheNever(model_name) == FALSE

\* line 26: model_name in MODEL_CACHE
InCache(model_name) == model_name \in DOMAIN MODEL_CACHE

\* a handler that stores a placeholder for the load that failed
LoadFailedPoison(model_name, path, made) ==
    LoadResult(Put(MODEL_CACHE, model_name, [path |-> path, object |-> 0]),
               Raise(<<"Failed to load model ", model_name, ": ">> \o made.msg),
               <<[path |-> path, made |-> made]>>)

\* lines 32-33: the constructor raised; nothing was assigned
LoadFailed(model_name, path, made) ==
    LoadResult(MODEL_CACHE,
               Raise(<<"Failed to load model ", model_name, ": ">> \o made.msg),
               <<[path |-> path, made |-> made]>>)

\* a store that rebinds MODEL_CACHE to a dict holding the new handle alone
LoadStoredEvicting(model_name, path, made) ==
    LoadResult(Put(EmptyDict, model_name, made.value),
               Return(made.value),
               <<[path |-> path, made |-> made]>>)

\* lines 29/31 and 35: the constructor returned; the handle is stored and returned
LoadStored(model_name, path, made) ==
    LoadResult(Put(MODEL_CACHE, model_name, made.value),
               Return(Put(MODEL_CACHE, model_name, made.value)[model_name]),
               <<[path |-> path, made |-> made]>>)

\* lines 27-33 once the constructor call is over
LoadMiss(model_name, path, made) ==
    IF made.kind = "return"
    THEN LoadStored(model_name, path, made)
    ELSE LoadFailed(model_name, path, made)

\* load_model(model_name)
load_model(model_name, how) ==
    IF ~InCache(model_name)
    THEN LoadMiss(model_name, ModelPath(model_name),
                  SentenceTransformer(ModelPath(model_name), how))
    ELSE LoadResult(MODEL_CACHE, Return(MODEL_CACHE[model_name]), <<>>)

----------------------------------------------------------------------------
(* generate_embeddings, lines 37-90 *)

\* what the try of generate_embeddings leaves: the cache, what it returned or
\* raised, the constructor calls and the encode calls made, and the path taken
TryResult(cache, loader, encodes, took, outcome) ==
    [cache |-> cache, loader |-> loader, encodes |-> encodes, took |-> took,
     outcome |-> outcome]

\* line 78: [emb.tolist() for emb in embeddings]
ListOfRows(rows) == [i \in 1..Len(rows) |-> ToList(rows[i])]

\* lines 65-69
FallbackReturn(loop, elapsed) ==
    IF loop.kind = "raise" THEN loop
    ELSE Return([embeddings |-> loop.value,
                 latency |-> elapsed,
                 model_used |-> MockFallback])

\* a result that reports the path the loader was given instead of the identifier
RealReturnPath(rows, model_name, elapsed) ==
    IF rows.kind = "raise" THEN rows
    ELSE Return([embeddings |-> ListOfRows(rows.value),
                 latency |-> elapsed,
                 model_used |-> ModelPath(model_name)])

\* lines 78-84
RealReturn(rows, model_name, elapsed) ==
    IF rows.kind = "raise" THEN rows
    ELSE Return([embeddings |-> ListOfRows(rows.value),
                 latency |-> elapsed,
                 model_used |-> model_name])

\* a call that takes the handle out of the cache again when encode raised
RealEncodedRollback(ld, rows, model_name, elapsed) ==
    TryResult(IF rows.kind = "raise" THEN MODEL_CACHE ELSE ld.cache,
              ld.loader, <<[model |-> ld.outcome.value, kind |-> rows.kind]>>,
              "real", RealReturn(rows, model_name, elapsed))

\* lines 75-84 once model.encode is over
RealEncoded(ld, rows, model_name, elapsed) ==
    TryResult(ld.cache, ld.loader, <<[model |-> ld.outcome.value, kind |-> rows.kind]>>,
              "real", RealReturn(rows, model_name, elapsed))

\* lines 72-84 once load_model is over
RealPath(ld, texts, model_name, enc, elapsed) ==
    IF ld.outcome.kind = "raise"
    THEN TryResult(ld.cache, ld.loader, <<>>, "real", ld.outcome)
    ELSE RealEncoded(ld, Encode(ld.outcome.value, texts, enc), model_name, elapsed)

\* lines 41-84, the body of the try
GenerateTry(texts, model_name, how, enc, elapsed) ==
    IF ~SENTENCE_TRANSFORMERS_AVAILABLE
    THEN TryResult(MODEL_CACHE, <<>>, <<>>, "fallback",
                   FallbackReturn(FallbackLoop(texts, 1, <<>>), elapsed))
    ELSE RealPath(load_model(model_name, how), texts, model_name, enc, elapsed)

\* an except clause that handles only a failed load
GenerateExceptNarrow(try, elapsed) ==
    IF try.outcome.kind = "raise" /\ try.outcome.msg[1] = "Failed to load model "
    THEN TryResult(try.cache, try.loader, try.encodes, try.took,
                   Return([error |-> try.outcome.msg, latency |-> elapsed]))
    ELSE try

\* an except clause that leaves the latency out
GenerateExceptNoLatency(try, elapsed) ==
    IF try.outcome.kind = "raise"
    THEN TryResult(try.cache, try.loader, try.encodes, try.took,
                   Return([error |-> try.outcome.msg]))
    ELSE try

\* lines 86-90: whatever the try raised becomes an error result
GenerateExcept(try, elapsed) ==
    IF try.outcome.kind = "raise"
    THEN TryResult(try.cache, try.loader, try.encodes, try.took,
                   Return([error |-> try.outcome.msg, latency |-> elapsed]))
    ELSE try

\* generate_embeddings(texts, model_name)
generate_embeddings(texts, model_name, how, enc, elapsed) ==
    GenerateExcept(GenerateTry(texts, model_name, how, enc, elapsed), elapsed)

----------------------------------------------------------------------------
(* main, lines 92-116 *)

\* the requests of the model: a JSON object with or without each key
Requests ==
    {EmptyDict}
        \cup {[texts |-> t] : t \in TextLists}
        \cup {[model_name |-> m] : m \in ModelNames}
        \cup {[texts |-> t, model_name |-> m] : t \in TextLists, m \in ModelNames}

\* what stdin.readline() can return: "" at end of file, an empty line, a line
\* of spaces, a line that is no JSON, a JSON array, a JSON object
InputLines ==
    {[raw |-> r] : r \in {"eof", "newline", "spaces", "garbage"}}
        \cup {[raw |-> "json", value |-> [array |-> <<>>]]}
        \cup {[raw |-> "json", value |-> [dict |-> d]] : d \in Requests}

\* str.strip(): the line without its leading and trailing whitespace
Strip(line) ==
    IF line.raw \in {"eof", "newline", "spaces"} THEN [raw |-> "empty"] ELSE line

\* json.loads(request_line)
JsonLoads(request_line) ==
    IF request_line.raw = "json" THEN Return(request_line.value)
    ELSE Raise(<<"Expecting property name enclosed in double quotes: line 1 column 2 (char 1)">>)

\* json.dumps(obj) raises TypeError on a numpy row
JsonDumps(obj) ==
    IF "embeddings" \in DOMAIN obj
          /\ \E i \in DOMAIN obj.embeddings : "ndarray" \in DOMAIN obj.embeddings[i]
    THEN Raise(<<"Object of type ndarray is not JSON serializable">>)
    ELSE Return(obj)

\* what a run of main leaves: the lines printed, the cache, the constructor
\* calls made and the calls of generate_embeddings made
MainResult(printed, cache, loader, generate) ==
    [printed |-> printed, cache |-> cache, loader |-> loader, generate |-> generate]

\* lines 115-116
ScriptError(msg) == [error |-> <<"Script error: ">> \o msg]

\* lines 113 and 115-116: print(json.dumps(result)), or the handler's line
Printed(dumped) ==
    IF dumped.kind = "raise" THEN <<ScriptError(dumped.msg)>> ELSE <<dumped.value>>

\* json.dumps of what generate_embeddings returned (nothing when it raised)
Dumped(outcome) ==
    IF outcome.kind = "raise" THEN outcome ELSE JsonDumps(outcome.value)

\* lines 110-116 once generate_embeddings is over
MainEmit(g, texts, model_name) ==
    MainResult(Printed(Dumped(g.outcome)), g.cache, g.loader,
               <<[texts |-> texts, model_name |-> model_name, took |-> g.took,
                  outcome |-> g.outcome, loader |-> g.loader, encodes |-> g.encodes]>>)

\* a test that lets every texts through
NoTextsNever(texts) == FALSE

\* line 105: not texts
NoTexts(texts) == texts = <<>>

\* lines 102-116 for a request that is a dict
MainRequest(request, texts, model_name, how, enc, elapsed) ==
    IF NoTexts(texts)
    THEN MainResult(<<[error |-> <<"No texts provided">>]>>, MODEL_CACHE, <<>>, <<>>)
    ELSE MainEmit(generate_embeddings(texts, model_name, how, enc, elapsed),
                  texts, model_name)

\* lines 101-116 once json.loads is over
MainParsed(parsed, how, enc, elapsed) ==
    IF parsed.kind = "raise"
    THEN MainResult(<<ScriptError(parsed.msg)>>, MODEL_CACHE, <<>>, <<>>)
    ELSE IF "dict" \notin DOMAIN parsed.value
    THEN MainResult(<<ScriptError(<<"'list' object has no attribute 'get'">>)>>,
                    MODEL_CACHE, <<>>, <<>>)
    ELSE MainRequest(parsed.value.dict,
                     Get(parsed.value.dict, "texts", <<>>),
                     Get(parsed.value.dict, "model_name", DefaultModel),
                     how, enc, elapsed)

\* lines 96-116 once the line is read and stripped
MainLine(request_line, how, enc, elapsed) ==
    IF request_line.raw = "empty"
    THEN MainResult(<<[error |-> <<"No input provided">>]>>, MODEL_CACHE, <<>>, <<>>)
    ELSE MainParsed(JsonLoads(request_line), how, enc, elapsed)

\* main(): one request line read from stdin, one line printed
main(line, how, enc, elapsed) == MainLine(Strip(line), how, enc, elapsed)

----------------------------------------------------------------------------
(* The process *)

Environments ==
    [installed : BOOLEAN,          \* sentence_transformers can be imported
     lazy_annotations : BOOLEAN,   \* the interpreter does not evaluate the
                                   \* annotations of a def when it runs the def
     script : BOOLEAN]             \* __name__ == "__main__"

Init ==
    /\ env \in Environments
    /\ pc = "start"
    /\ SENTENCE_TRANSFORMERS_AVAILABLE = FALSE
    /\ MODEL_CACHE = EmptyDict
    /\ stdout = <<>>
    /\ constructed = 0
    /\ loaderOk = [m \in ModelNames |-> 0]
    /\ encoded = {}
    /\ last = [op |-> "none"]

\* what the backend can do on the calls of one operation: nothing when it was
\* not imported; the constructor is drawn only for an identifier not yet cached
LoadBehaviours(model_name) ==
    IF ~SENTENCE_TRANSFORMERS_AVAILABLE THEN {"absent"}
    ELSE IF model_name \in DOMAIN MODEL_CACHE THEN {"ok"}
    ELSE LoadHow

EncodeBehaviours == IF SENTENCE_TRANSFORMERS_AVAILABLE THEN EncodeHow ELSE {"absent"}

\* the constructor calls of a trace that returned
Successes(loader) == Len(SelectSeq(loader, LAMBDA c : c.made.kind = "return"))

\* the <<text, vector>> pairs of a result of the fallback path
FallbackPairs(texts, took, outcome) ==
    IF took = "fallback" /\ outcome.kind = "return" /\ "embeddings" \in DOMAIN outcome.value
    THEN {<<texts[i], outcome.value.embeddings[i]>> :
             i \in DOMAIN texts \cap DOMAIN outcome.value.embeddings}
    ELSE {}

\* the pairs of the calls of generate_embeddings a run of main made
PairsOfCalls(generate) ==
    UNION {FallbackPairs(generate[i].texts, generate[i].took, generate[i].outcome) :
              i \in DOMAIN generate}

\* the identifier a run of main asked for (the default when it asked for none)
AskedFor(generate) ==
    IF generate = <<>> THEN DefaultModel ELSE generate[1].model_name

\* the bookkeeping of the constructor calls of one operation
Count(model_name, loader) ==
    /\ constructed + Successes(loader) <= MaxObjects
    /\ constructed' = constructed + Successes(loader)
    /\ loaderOk' = [loaderOk EXCEPT ![model_name] = @ + Successes(loader)]

\* lines 13-19: the import of the backend; without it one line is printed
ImportBackend ==
    /\ pc = "start"
    /\ pc' = "imported"
    /\ SENTENCE_TRANSFORMERS_AVAILABLE' = env.installed
    /\ stdout' = IF env.installed THEN stdout
                 ELSE Append(stdout,
                        [error |-> <<"sentence-transformers not available, install with: pip install sentence-transformers">>])
    /\ UNCHANGED <<env, MODEL_CACHE, constructed, loaderOk, encoded, last>>

\* lines 21-92: MODEL_CACHE = {} and the three defs.  The def of line 24 names
\* SentenceTransformer in its return annotation: an interpreter that evaluates
\* annotations when it runs the def raises NameError when the import failed,
\* and the process ends with a traceback and a non-zero status.
DefineModule ==
    /\ pc = "imported"
    /\ MODEL_CACHE' = EmptyDict
    /\ pc' = IF ~SENTENCE_TRANSFORMERS_AVAILABLE /\ ~env.lazy_annotations
             THEN "crashed" ELSE "loaded"
    /\ UNCHANGED <<env, SENTENCE_TRANSFORMERS_AVAILABLE, stdout, constructed,
                   loaderOk, encoded, last>>

\* the effect of one run of main on the process
MainDone(r, line) ==
    /\ Count(AskedFor(r.generate), r.loader)
    /\ MODEL_CACHE' = r.cache
    /\ stdout' = stdout \o r.printed
    /\ encoded' = encoded \cup PairsOfCalls(r.generate)
    /\ last' = [op |-> "main", line |-> line, printed |-> r.printed,
                generate |-> r.generate, loader |-> r.loader]

\* lines 118-119: the script calls main() once and the process ends
RunMain ==
    /\ pc = "loaded"
    /\ env.script
    /\ \E line \in InputLines, elapsed \in 0..MaxElapsed :
       \E how \in UNION {LoadBehaviours(m) : m \in ModelNames}, enc \in EncodeBehaviours :
          MainDone(main(line, how, enc, elapsed), line)
    /\ pc' = "done"
    /\ UNCHANGED <<env, SENTENCE_TRANSFORMERS_AVAILABLE>>

\* the effect of one call of load_model on the process
LoadModelDone(r, model_name) ==
    /\ Count(model_name, r.loader)
    /\ MODEL_CACHE' = r.cache
    /\ last' = [op |-> "load_model", model_name |-> model_name,
                outcome |-> r.outcome, loader |-> r.loader]

\* a host that imported the module calls load_model(model_name)
CallLoadModel ==
    /\ pc = "loaded"
    /\ ~env.script
    /\ \E model_name \in ModelNames :
       \E how \in LoadBehaviours(model_name) :
          LoadModelDone(load_model(model_name, how), model_name)
    /\ UNCHANGED <<env, pc, SENTENCE_TRANSFORMERS_AVAILABLE, stdout, encoded>>

\* the effect of one call of generate_embeddings on the process
GenerateDone(r, texts, model_name) ==
    /\ Count(model_name, r.loader)
    /\ MODEL_CACHE' = r.cache
    /\ encoded' = encoded \cup FallbackPairs(texts, r.took, r.outcome)
    /\ last' = [op |-> "generate_embeddings", texts |-> texts,
                model_name |-> model_name, took |-> r.took,
                outcome |-> r.outcome, loader |-> r.loader, encodes |-> r.encodes]

\* a host that imported the module calls generate_embeddings(texts, model_name)
CallGenerate ==
    /\ pc = "loaded"
    /\ ~env.script
    /\ \E texts \in TextLists, model_name \in ModelNames, elapsed \in 0..MaxElapsed :
       \E how \in LoadBehaviours(model_name), enc \in EncodeBehaviours :
          GenerateDone(generate_embeddings(texts, model_name, how, enc, elapsed),
                       texts, model_name)
    /\ UNCHANGED <<env, pc, SENTENCE_TRANSFORMERS_AVAILABLE, stdout>>

Next ==
    \/ ImportBackend
    \/ DefineModule
    \/ RunMain
    \/ CallLoadModel
    \/ CallGenerate

Spec == Init /\ [][Next]_vars

----------------------------------------------------------------------------
(* The body of the fallback loop, lines 45-63, one statement at a time.     *)
(* The process has no backend; generate_embeddings is in one iteration of   *)
(* `for text in texts`.  pc is the line about to run and last holds the     *)
(* locals text, hash_bytes, embedding, i, norm and embeddings.  The norm is *)
(* kept as norm2, the sum of the squared numerators: norm = sqrt(norm2)/510.*)

\* the locals of generate_embeddings inside the loop
Locals(text, hash_bytes, embedding, i, norm2, embeddings) ==
    [op |-> "fallback_body", text |-> text, hash_bytes |-> hash_bytes,
     embedding |-> embedding, i |-> i, norm2 |-> norm2, embeddings |-> embeddings]

\* line 45: the loop takes a text of the list
FallbackInit ==
    /\ env = [installed |-> FALSE, lazy_annotations |-> TRUE, script |-> FALSE]
    /\ pc = "line 48"
    /\ SENTENCE_TRANSFORMERS_AVAILABLE = FALSE
    /\ MODEL_CACHE = EmptyDict
    /\ stdout = <<[error |-> <<"sentence-transformers not available, install with: pip install sentence-transformers">>]>>
    /\ constructed = 0
    /\ loaderOk = [m \in ModelNames |-> 0]
    /\ encoded = {}
    /\ \E text \in HashedTexts :
          last = Locals(text, <<>>, [num |-> <<>>, den2 |-> 510 * 510], 0, 0, <<>>)

\* a loop that takes the digest byte of index i // len(hash_bytes)
RawValueDiv(hash_bytes, i) == ByteValue(hash_bytes[(i \div Len(hash_bytes)) + 1])

\* lines 54-55: byte_idx = i % len(hash_bytes); value = hash_bytes[byte_idx]/255.0 - 0.5
RawValue(hash_bytes, i) == ByteValue(hash_bytes[(i % Len(hash_bytes)) + 1])

\* lines 48-49 and 52: the digest of the text; embedding = []
HashText ==
    /\ pc = "line 48"
    /\ last' = [last EXCEPT !.hash_bytes = Sha256Digest(last.text),
                            !.embedding = [num |-> <<>>, den2 |-> 510 * 510],
                            !.i = 0]
    /\ pc' = "line 53"
    /\ UNCHANGED <<env, SENTENCE_TRANSFORMERS_AVAILABLE, MODEL_CACHE, stdout,
                   constructed, loaderOk, encoded>>

\* lines 53-56: one iteration of `for i in range(384)`
AppendValue ==
    /\ pc = "line 53"
    /\ last.i < Dimension
    /\ last' = [last EXCEPT !.embedding.num = Append(@, RawValue(last.hash_bytes, last.i)),
                            !.i = @ + 1]
    /\ UNCHANGED <<env, pc, SENTENCE_TRANSFORMERS_AVAILABLE, MODEL_CACHE, stdout,
                   constructed, loaderOk, encoded>>

\* line 59: norm = np.linalg.norm(embedding), once range(384) is exhausted
TakeNorm ==
    /\ pc = "line 53"
    /\ last.i = Dimension
    /\ last' = [last EXCEPT !.norm2 = SumSq(last.embedding.num, 1, Len(last.embedding.num))]
    /\ pc' = "line 60"
    /\ UNCHANGED <<env, SENTENCE_TRANSFORMERS_AVAILABLE, MODEL_CACHE, stdout,
                   constructed, loaderOk, encoded>>

\* lines 60-61: if norm > 0: embedding = [x / norm for x in embedding]
NormalizeEmbedding ==
    /\ pc = "line 60"
    /\ last' = [last EXCEPT !.embedding = Normalize(@)]
    /\ pc' = "line 63"
    /\ UNCHANGED <<env, SENTENCE_TRANSFORMERS_AVAILABLE, MODEL_CACHE, stdout,
                   constructed, loaderOk, encoded>>

\* line 63: embeddings.append(embedding)
AppendEmbedding ==
    /\ pc = "line 63"
    /\ last' = [last EXCEPT !.embeddings = Append(@, last.embedding)]
    /\ pc' = "line 45"
    /\ UNCHANGED <<env, SENTENCE_TRANSFORMERS_AVAILABLE, MODEL_CACHE, stdout,
                   constructed, loaderOk, encoded>>

FallbackNext ==
    \/ HashText
    \/ AppendValue
    \/ TakeNorm
    \/ NormalizeEmbedding
    \/ AppendEmbedding

FallbackBody == FallbackInit /\ [][FallbackNext]_vars

----------------------------------------------------------------------------
(* load_model called by the threads of one host process, lines 24-35.  The  *)
(* function takes no lock: a thread can be suspended between any two of its *)
(* statements, and the constructor (which reads the model from disk or the  *)
(* network) runs while other threads run.  pc gives each thread's line and  *)
(* last each thread's call: its model_name and what it returned or raised.  *)

Threads == {"t1", "t2"}

ConcurrentInit ==
    /\ env = [installed |-> TRUE, lazy_annotations |-> FALSE, script |-> FALSE]
    /\ pc = [t \in Threads |-> "idle"]
    /\ SENTENCE_TRANSFORMERS_AVAILABLE = TRUE
    /\ MODEL_CACHE = EmptyDict
    /\ stdout = <<>>
    /\ constructed = 0
    /\ loaderOk = [m \in ModelNames |-> 0]
    /\ encoded = {}
    /\ last = [t \in Threads |-> [op |-> "none"]]

\* a thread calls load_model(model_name)
ThreadCall(t) ==
    /\ pc[t] = "idle"
    /\ \E model_name \in ModelNames :
          last' = [last EXCEPT ![t] = [op |-> "load_model", model_name |-> model_name,
                                       outcome |-> [kind |-> "running"]]]
    /\ pc' = [pc EXCEPT ![t] = "line 26"]
    /\ UNCHANGED <<env, SENTENCE_TRANSFORMERS_AVAILABLE, MODEL_CACHE, stdout,
                   constructed, loaderOk, encoded>>

\* line 26: if model_name not in MODEL_CACHE
ThreadTest(t) ==
    /\ pc[t] = "line 26"
    /\ pc' = [pc EXCEPT ![t] = IF ~InCache(last[t].model_name) THEN "line 28" ELSE "line 35"]
    /\ UNCHANGED <<env, SENTENCE_TRANSFORMERS_AVAILABLE, MODEL_CACHE, stdout,
                   constructed, loaderOk, encoded, last>>

\* lines 28-31: the thread enters the constructor
ThreadConstruct(t) ==
    /\ pc[t] = "line 28"
    /\ pc' = [pc EXCEPT ![t] = "in SentenceTransformer"]
    /\ UNCHANGED <<env, SENTENCE_TRANSFORMERS_AVAILABLE, MODEL_CACHE, stdout,
                   constructed, loaderOk, encoded, last>>

\* the effect of the end of a constructor call on the process
ThreadLoaded(t, r) ==
    /\ Count(last[t].model_name, r.loader)
    /\ MODEL_CACHE' = r.cache
    /\ pc' = [pc EXCEPT ![t] = IF r.outcome.kind = "raise" THEN "idle" ELSE "line 35"]
    /\ last' = [last EXCEPT ![t].outcome =
                   IF r.outcome.kind = "raise" THEN r.outcome ELSE @]

\* lines 29/31 and 32-33: the constructor returns and the handle is stored,
\* or it raises and load_model raises
ThreadConstructed(t) ==
    /\ pc[t] = "in SentenceTransformer"
    /\ \E how \in LoadHow :
          ThreadLoaded(t, LoadMiss(last[t].model_name, ModelPath(last[t].model_name),
                                   SentenceTransformer(ModelPath(last[t].model_name), how)))
    /\ UNCHANGED <<env, SENTENCE_TRANSFORMERS_AVAILABLE, stdout, encoded>>

\* line 35: return MODEL_CACHE[model_name]
ThreadReturn(t) ==
    /\ pc[t] = "line 35"
    /\ last' = [last EXCEPT ![t].outcome = Return(MODEL_CACHE[last[t].model_name])]
    /\ pc' = [pc EXCEPT ![t] = "idle"]
    /\ UNCHANGED <<env, SENTENCE_TRANSFORMERS_AVAILABLE, MODEL_CACHE, stdout,
                   constructed, loaderOk, encoded>>

ConcurrentNext ==
    \E t \in Threads :
        \/ ThreadCall(t)
        \/ ThreadTest(t)
        \/ ThreadConstruct(t)
        \/ ThreadConstructed(t)
        \/ ThreadReturn(t)

Concurrent == ConcurrentInit /\ [][ConcurrentNext]_vars

----------------------------------------------------------------------------
(* Views of a state used by the properties *)

\* the calls of generate_embeddings the last operation made (itself, for a
\* direct call)
Calls ==
    IF last.op = "generate_embeddings" THEN {last}
    ELSE IF last.op = "main" THEN {last.generate[i] : i \in DOMAIN last.generate}
    ELSE {}

Succeeded(c) == c.outcome.kind = "return" /\ "embeddings" \in DOMAIN c.outcome.value

LoadFailedIn(c) == \E i \in DOMAIN c.loader : c.loader[i].made.kind = "raise"

EncodeFailedIn(c) == \E i \in DOMAIN c.encodes : c.encodes[i].kind = "raise"

\* the request of the line main read, when that line is a JSON object
IsRequest(line) == line.raw = "json" /\ "dict" \in DOMAIN line.value

Ended == pc \in {"done", "crashed"}

SuccessKeys == {"embeddings", "latency", "model_used"}
ErrorLatencyKeys == {"error", "latency"}
ErrorKeys == {"error"}

\* the vectors the fallback encoder gives for the texts of a list, in order
ExpectedFallback(texts) ==
    [i \in 1..Len(texts) |-> Normalize(RawEmbedding(Sha256Digest(texts[i])))]

\* the vectors a backend that keeps the input order gives, as lists
ExpectedReal(texts, model_name) ==
    [i \in 1..Len(texts) |-> [list |-> [path |-> ModelPath(model_name), text |-> texts[i]]]]

----------------------------------------------------------------------------
(* C1 *)

\* C1: every run of the process writes exactly one line to the output stream
\* and then ends normally, on every path (never zero lines at the end, never
\* two or more, never an abnormal end).
C1_ExactlyOneLine ==
    env.script =>
        /\ Len(stdout) <= 1
        /\ pc # "crashed"
        /\ (pc = "done" => Len(stdout) = 1)

----------------------------------------------------------------------------
(* C2 *)

\* C2: with no backend available, a process given a request with non-empty
\* texts ends normally and its response is the one success result labelled
\* "mock_fallback" whose i-th vector is the fallback encoder's vector for
\* texts[i], whatever model identifier was requested.
C2_FallbackServes ==
    (env.script /\ ~env.installed /\ Ended) =>
        /\ pc = "done"
        /\ (IsRequest(last.line) /\ Get(last.line.value.dict, "texts", <<>>) # <<>>) =>
              /\ Len(stdout) = 1
              /\ DOMAIN stdout[1] = SuccessKeys
              /\ stdout[1].model_used = MockFallback
              /\ stdout[1].embeddings =
                     ExpectedFallback(Get(last.line.value.dict, "texts", <<>>))

----------------------------------------------------------------------------
(* C3 *)

\* C3: empty input is always rejected: no call generate_embeddings([], m),
\* with or without a backend, returns a success result, and a request whose
\* texts is [] prints an error result.
C3_EmptyRejected ==
    /\ \A c \in Calls : c.texts = <<>> => ~Succeeded(c)
    /\ (last.op = "main" /\ IsRequest(last.line)
           /\ Get(last.line.value.dict, "texts", <<>>) = <<>>) =>
          \A i \in DOMAIN last.printed : "error" \in DOMAIN last.printed[i]

----------------------------------------------------------------------------
(* C4 *)

\* C4: a model is loaded at most once per process: once an identifier is in
\* the cache, every later step keeps the same handle for it, a later
\* load_model call for it returns that handle without a constructor call, and
\* the constructor has returned exactly once for every cached identifier (and
\* never for an identifier that is not cached).
C4_Step ==
    /\ \A m \in ModelNames :
          /\ loaderOk'[m] <= 1
          /\ (loaderOk'[m] = 1) <=> (m \in DOMAIN MODEL_CACHE')
    /\ \A m \in DOMAIN MODEL_CACHE :
          /\ m \in DOMAIN MODEL_CACHE'
          /\ MODEL_CACHE'[m] = MODEL_CACHE[m]
          /\ loaderOk'[m] = loaderOk[m]
          /\ (last'.op = "load_model" /\ last'.model_name = m) =>
                /\ last'.outcome = Return(MODEL_CACHE[m])
                /\ last'.loader = <<>>

C4_LoadedAtMostOnce == [][C4_Step]_vars

\* a load_model call served from the cache after the one load of its identifier
C4_Witness ==
    /\ last.op = "load_model"
    /\ last.loader = <<>>
    /\ last.outcome.kind = "return"
    /\ loaderOk[last.model_name] = 1
    /\ constructed = 2

----------------------------------------------------------------------------
(* C5 *)

\* C5: a failed load is never cached: a load_model call whose constructor
\* raised raises "Failed to load model <id>: <reason>", leaves the cache as
\* it was with no entry for the identifier, and a load_model call for an
\* identifier that is not cached always calls the constructor.
C5_Step ==
    (last'.op = "load_model") =>
        /\ (last'.model_name \notin DOMAIN MODEL_CACHE) =>
              /\ Len(last'.loader) = 1
              /\ last'.loader[1].path = ModelPath(last'.model_name)
        /\ LoadFailedIn(last') =>
              /\ last'.outcome =
                    Raise(<<"Failed to load model ", last'.model_name, ": ">>
                              \o last'.loader[1].made.msg)
              /\ MODEL_CACHE' = MODEL_CACHE
              /\ last'.model_name \notin DOMAIN MODEL_CACHE'

C5_FailedLoadNotCached == [][C5_Step]_vars

\* a load_model call whose constructor raised, with another model cached
C5_Witness ==
    /\ last.op = "load_model"
    /\ LoadFailedIn(last)
    /\ last.outcome.kind = "raise"
    /\ last.model_name \notin DOMAIN MODEL_CACHE
    /\ DOMAIN MODEL_CACHE # {}

----------------------------------------------------------------------------
(* C6 *)

\* C6: no failure escapes generate_embeddings: every call returns; when the
\* load or the encode failed it returns exactly {error, latency} with the
\* failure's message and the elapsed time (no embeddings, no model_used); and
\* main prints that object as the only line of the process.
C6_FailuresReturned ==
    /\ \A c \in Calls :
          /\ c.outcome.kind = "return"
          /\ (LoadFailedIn(c) \/ EncodeFailedIn(c)) =>
                /\ DOMAIN c.outcome.value = ErrorLatencyKeys
                /\ c.outcome.value.latency \in 0..MaxElapsed
                /\ LoadFailedIn(c) =>
                      c.outcome.value.error =
                          <<"Failed to load model ", c.model_name, ": ">>
                              \o c.loader[1].made.msg
                /\ EncodeFailedIn(c) => c.outcome.value.error \in {<<r>> : r \in EncodeFailures}
    /\ (last.op = "main" /\ \E c \in Calls : LoadFailedIn(c) \/ EncodeFailedIn(c)) =>
          /\ last.printed = <<last.generate[1].outcome.value>>
          /\ stdout = last.printed

\* a process that printed the error result of a failed encode
C6_Witness ==
    /\ pc = "done"
    /\ last.op = "main"
    /\ \E c \in Calls : EncodeFailedIn(c)
    /\ Len(stdout) = 1
    /\ DOMAIN stdout[1] = ErrorLatencyKeys
    /\ stdout[1].error = <<"encode failed">>

----------------------------------------------------------------------------
(* C7 *)

\* C7: every line written has exactly one of the key sets {embeddings,
\* latency, model_used}, {error, latency}, {error}; every result returned by
\* generate_embeddings carries latency; a line main prints without calling
\* generate_embeddings has the key error alone.
C7_WireShapes ==
    /\ \A i \in DOMAIN stdout :
          DOMAIN stdout[i] \in {SuccessKeys, ErrorLatencyKeys, ErrorKeys}
    /\ \A c \in Calls :
          c.outcome.kind = "return" =>
              /\ DOMAIN c.outcome.value \in {SuccessKeys, ErrorLatencyKeys}
              /\ "latency" \in DOMAIN c.outcome.value
    /\ (last.op = "main" /\ last.generate = <<>>) =>
          \A i \in DOMAIN last.printed : DOMAIN last.printed[i] = ErrorKeys

\* a process whose one line is an error result with its latency
C7_Witness ==
    /\ pc = "done"
    /\ Len(stdout) = 1
    /\ DOMAIN stdout[1] = ErrorLatencyKeys

----------------------------------------------------------------------------
(* C8 *)

\* C8: a success result is labelled "mock_fallback" whenever the fallback
\* encoder produced its vectors, and a success result of a real model handle
\* is labelled with the requested identifier and never "mock_fallback", for
\* every requested identifier (stated for the calls with at least one text).
C8_NeverConfused ==
    \A c \in Calls :
        (Succeeded(c) /\ c.texts # <<>>) =>
            /\ (c.took = "fallback") => c.outcome.value.model_used = MockFallback
            /\ (c.took = "real") =>
                  /\ c.outcome.value.model_used = c.model_name
                  /\ c.outcome.value.model_used # MockFallback

----------------------------------------------------------------------------
(* C9 *)

\* C9: a success result has one vector per text, in the order of the texts:
\* on the fallback path the i-th vector is the fallback vector of texts[i], on
\* the real path it is the backend's row for texts[i].
C9_OrderAndCount ==
    \A c \in Calls :
        Succeeded(c) =>
            /\ Len(c.outcome.value.embeddings) = Len(c.texts)
            /\ (c.took = "fallback") =>
                  c.outcome.value.embeddings = ExpectedFallback(c.texts)
            /\ (c.took = "real") =>
                  c.outcome.value.embeddings = ExpectedReal(c.texts, c.model_name)

\* a fallback result for two different texts
C9_Witness ==
    /\ last.op = "generate_embeddings"
    /\ Succeeded(last)
    /\ last.took = "fallback"
    /\ Len(last.texts) = 2
    /\ last.texts[1] # last.texts[2]
    /\ last.outcome.value.embeddings[1] # last.outcome.value.embeddings[2]

----------------------------------------------------------------------------
(* C10 *)

\* C10: the fallback encoder is deterministic: over all the fallback results
\* of a process, whatever the call, the requested identifier, the position in
\* the batch and the other texts of the batch, one text has one vector.
C10_Deterministic ==
    /\ \A p \in encoded, q \in encoded : p[1] = q[1] => p[2] = q[2]
    /\ \A c \in Calls :
          (Succeeded(c) /\ c.took = "fallback") =>
              \A i \in DOMAIN c.texts :
                  <<c.texts[i], c.outcome.value.embeddings[i]>> \in encoded

\* one text encoded first and second in a batch, by a call that named the
\* non-default model, in a process that had encoded the other text before
C10_Witness ==
    /\ last.op = "generate_embeddings"
    /\ Succeeded(last)
    /\ last.took = "fallback"
    /\ last.texts = <<"hello", "hello">>
    /\ last.outcome.value.embeddings[1] = last.outcome.value.embeddings[2]
    /\ last.model_name # DefaultModel
    /\ Cardinality(encoded) = 2

----------------------------------------------------------------------------
(* C11 *)

\* the three input errors of main: a line that is blank once stripped, a line
\* that is no JSON object, a request whose texts is missing or empty
BlankLine(line) == line.raw \in {"eof", "newline", "spaces"}

NotAnObject(line) ==
    \/ line.raw = "garbage"
    \/ line.raw = "json" /\ "dict" \notin DOMAIN line.value

WithoutTexts(line) == IsRequest(line) /\ Get(line.value.dict, "texts", <<>>) = <<>>

\* C11: main recovers the input errors with fixed messages: a blank line
\* prints {"error": "No input provided"}, a line that is no JSON object prints
\* {"error": "Script error: <message>"}, a request with empty or missing texts
\* prints {"error": "No texts provided"}; in the three cases main prints that
\* one line, calls neither generate_embeddings nor the loader, and leaves the
\* cache as it was.
C11_Step ==
    (last'.op = "main") =>
        /\ BlankLine(last'.line) =>
              last'.printed = <<[error |-> <<"No input provided">>]>>
        /\ NotAnObject(last'.line) =>
              /\ Len(last'.printed) = 1
              /\ DOMAIN last'.printed[1] = ErrorKeys
              /\ Len(last'.printed[1].error) = 2
              /\ last'.printed[1].error[1] = "Script error: "
        /\ WithoutTexts(last'.line) =>
              last'.printed = <<[error |-> <<"No texts provided">>]>>
        /\ (BlankLine(last'.line) \/ NotAnObject(last'.line) \/ WithoutTexts(last'.line)) =>
              /\ last'.generate = <<>>
              /\ last'.loader = <<>>
              /\ MODEL_CACHE' = MODEL_CACHE
              /\ constructed' = constructed
              /\ loaderOk' = loaderOk
              /\ stdout' = stdout \o last'.printed
              /\ pc' = "done"

C11_InputErrors == [][C11_Step]_vars

\* a process with the backend installed that was given a request naming a
\* model and no texts
C11_Witness ==
    /\ pc = "done"
    /\ env.installed
    /\ last.op = "main"
    /\ IsRequest(last.line)
    /\ "texts" \notin DOMAIN last.line.value.dict
    /\ "model_name" \in DOMAIN last.line.value.dict
    /\ stdout = <<[error |-> <<"No texts provided">>]>>
    /\ MODEL_CACHE = EmptyDict

----------------------------------------------------------------------------
(* C12 *)

\* the line that carries the JSON object d
LineOf(d) == [raw |-> "json", value |-> [dict |-> d]]

\* the requests that have no model_name key
Unnamed == {d \in Requests : "model_name" \notin DOMAIN d}

\* C12: a request without model_name is processed exactly like the same
\* request with model_name = "all-MiniLM-L6-v2": from any state main can run
\* in, both give the same lines, the same cache and the same calls; the call
\* main made for a request without model_name asked for "all-MiniLM-L6-v2",
\* the loader was given that identifier's path, the only key inserted is
\* "all-MiniLM-L6-v2", and a success of the real model reports it.
C12_DefaultModelName ==
    /\ (pc = "loaded") =>
          \A d \in Unnamed, elapsed \in 0..MaxElapsed :
          \A how \in LoadBehaviours(DefaultModel), enc \in EncodeBehaviours :
              main(LineOf(d), how, enc, elapsed)
                  = main(LineOf(Put(d, "model_name", DefaultModel)), how, enc, elapsed)
    /\ (last.op = "main" /\ IsRequest(last.line)
           /\ "model_name" \notin DOMAIN last.line.value.dict) =>
          /\ DOMAIN MODEL_CACHE \subseteq {DefaultModel}
          /\ \A c \in Calls :
                /\ c.model_name = DefaultModel
                /\ \A i \in DOMAIN c.loader : c.loader[i].path = ModelPath(DefaultModel)
                /\ (Succeeded(c) /\ c.took = "real") =>
                      /\ c.outcome.value.model_used = DefaultModel
                      /\ DOMAIN MODEL_CACHE = {DefaultModel}

\* a process that served a request without model_name with the real model
C12_Witness ==
    /\ pc = "done"
    /\ last.op = "main"
    /\ IsRequest(last.line)
    /\ DOMAIN last.line.value.dict = {"texts"}
    /\ Len(stdout) = 1
    /\ DOMAIN stdout[1] = SuccessKeys
    /\ stdout[1].model_used = DefaultModel
    /\ DOMAIN MODEL_CACHE = {DefaultModel}

----------------------------------------------------------------------------
(* C13 *)

\* the embedding [num, den2] stands for num[i] / sqrt(den2): the square of its
\* Euclidean norm is SumSq(num) / den2
AllZero(embedding) == \A i \in DOMAIN embedding.num : embedding.num[i] = 0

UnitNorm(embedding) ==
    /\ embedding.den2 > 0
    /\ SumSq(embedding.num, 1, Len(embedding.num)) = embedding.den2

\* the loop body is past the normalisation of lines 59-61
Normalized == pc \in {"line 63", "line 45"}

\* C13: every vector the fallback encoder appends has Euclidean norm 1, except
\* a vector whose raw components are all zero, which is appended unchanged
\* (norm 0); the vector of the fallback table of a text is that vector.
C13_UnitNorm ==
    /\ Normalized =>
          /\ Len(last.embedding.num) = Dimension
          /\ ~AllZero(last.embedding) => UnitNorm(last.embedding)
          /\ AllZero(last.embedding) => last.embedding.den2 = 510 * 510
    /\ (pc = "line 45") =>
          /\ last.embeddings = <<last.embedding>>
          /\ last.text \in Encodable =>
                MockEmbedding(last.text) = Return(last.embeddings[1])

\* the vector appended for the non-empty text "hello" has norm 1
C13_Witness ==
    /\ pc = "line 45"
    /\ last.text = "hello"
    /\ Len(last.embeddings) = 1
    /\ UnitNorm(last.embeddings[1])
    /\ last.embeddings[1].den2 # 510 * 510

----------------------------------------------------------------------------
(* C14 *)

\* the raw embedding is being built or is built and not yet normalised: its
\* component k (from 1) is the value num[k] / 510
Raw == pc \in {"line 53", "line 60"}

\* the component of index i (from 0) comes from the digest byte i mod len
FromItsByte(embedding, hash_bytes) ==
    \A k \in DOMAIN embedding.num :
        embedding.num[k] = 2 * hash_bytes[((k - 1) % Len(hash_bytes)) + 1] - 255

\* C14 as stated: the raw vector has exactly 384 components, component i comes
\* from digest[i mod len(digest)] only, and every raw value (byte/255) - 0.5
\* is >= -0.5 and strictly < 0.5, that is -255 <= num < 255.
C14_HalfOpen ==
    Raw =>
        /\ Len(last.embedding.num) = last.i
        /\ (pc = "line 60") => Len(last.embedding.num) = Dimension
        /\ FromItsByte(last.embedding, last.hash_bytes)
        /\ \A k \in DOMAIN last.embedding.num :
              /\ last.embedding.num[k] >= -255
              /\ last.embedding.num[k] < 255

\* C14 amended: the raw vector has exactly 384 components, component i comes
\* from digest[i mod len(digest)] only, and every raw value (byte/255) - 0.5
\* lies in the closed interval [-0.5, 0.5]: it is -0.5 for the byte 0 and
\* exactly 0.5 for the byte 255.  The built vector is the raw vector of the
\* fallback table.
C14_ClosedInterval ==
    /\ Raw =>
          /\ Len(last.embedding.num) = last.i
          /\ last.embedding.den2 = 510 * 510
          /\ FromItsByte(last.embedding, last.hash_bytes)
          /\ \A k \in DOMAIN last.embedding.num :
                /\ last.embedding.num[k] >= -255
                /\ last.embedding.num[k] <= 255
                /\ (last.embedding.num[k] = 255)
                      <=> (last.hash_bytes[((k - 1) % Len(last.hash_bytes)) + 1] = 255)
                /\ (last.embedding.num[k] = -255)
                      <=> (last.hash_bytes[((k - 1) % Len(last.hash_bytes)) + 1] = 0)
    /\ (pc = "line 60") =>
          /\ Len(last.embedding.num) = Dimension
          /\ last.embedding = RawEmbedding(last.hash_bytes)

\* the raw vector of "2392", whose digest holds the bytes 0 and 255: it has
\* the components -0.5 and 0.5
C14_Witness ==
    /\ pc = "line 60"
    /\ last.text = "2392"
    /\ Len(last.embedding.num) = Dimension
    /\ \E k \in DOMAIN last.embedding.num : last.embedding.num[k] = 255
    /\ \E k \in DOMAIN last.embedding.num : last.embedding.num[k] = -255

----------------------------------------------------------------------------
(* C15 *)

\* the last operation was a call of generate_embeddings or of load_model, or
\* a run of main that called generate_embeddings
OneCall(l) ==
    \/ l.op \in {"generate_embeddings", "load_model"}
    \/ l.op = "main" /\ l.generate # <<>>

\* the identifier the last operation asked for
Requested(l) == IF l.op = "main" THEN l.generate[1].model_name ELSE l.model_name

\* the last operation took the fallback path of generate_embeddings
TookFallback(l) ==
    \/ l.op = "generate_embeddings" /\ l.took = "fallback"
    \/ l.op = "main" /\ l.generate # <<>> /\ l.generate[1].took = "fallback"

\* C15: the cache only grows, by insertion on a miss: no step removes an
\* entry or changes its handle; a call adds at most the entry of the
\* identifier it asked for, only when that identifier was not cached and its
\* one constructor call returned, and the entry is the object that call made;
\* a call that takes the fallback path leaves the cache, the availability
\* flag, the output of the module (but for the line main prints) and the
\* objects constructed as they were.
C15_Step ==
    /\ \A m \in DOMAIN MODEL_CACHE :
          m \in DOMAIN MODEL_CACHE' /\ MODEL_CACHE'[m] = MODEL_CACHE[m]
    /\ (DOMAIN MODEL_CACHE' # DOMAIN MODEL_CACHE) =>
          /\ OneCall(last')
          /\ DOMAIN MODEL_CACHE' = DOMAIN MODEL_CACHE \cup {Requested(last')}
          /\ Requested(last') \notin DOMAIN MODEL_CACHE
          /\ Len(last'.loader) = 1
          /\ last'.loader[1].made.kind = "return"
          /\ MODEL_CACHE'[Requested(last')] = last'.loader[1].made.value
          /\ MODEL_CACHE'[Requested(last')].object = constructed'
          /\ constructed' = constructed + 1
    /\ (OneCall(last') /\ Successes(last'.loader) = 0) => MODEL_CACHE' = MODEL_CACHE
    /\ TookFallback(last') =>
          /\ MODEL_CACHE' = MODEL_CACHE
          /\ SENTENCE_TRANSFORMERS_AVAILABLE' = SENTENCE_TRANSFORMERS_AVAILABLE
          /\ constructed' = constructed
          /\ loaderOk' = loaderOk
          /\ last'.loader = <<>>
          /\ (last'.op = "generate_embeddings") => stdout' = stdout

C15_CacheOnlyGrows == [][C15_Step]_vars

\* a call of generate_embeddings that added the entry of its identifier to a
\* cache that held another one
C15_Witness ==
    /\ last.op = "generate_embeddings"
    /\ last.took = "real"
    /\ Successes(last.loader) = 1
    /\ Cardinality(DOMAIN MODEL_CACHE) = 2
    /\ MODEL_CACHE[last.model_name].object = 2
    /\ \E m \in DOMAIN MODEL_CACHE : MODEL_CACHE[m].object = 1

----------------------------------------------------------------------------
(* C16 *)

\* the threads whose constructor call for the identifier m is running
InFlight(m) ==
    {t \in Threads : pc[t] = "in SentenceTransformer" /\ last[t].model_name = m}

\* C16: when threads of one process call load_model for the same identifier,
\* at most one load of that identifier is in flight at any time, and the
\* constructor never returns a second object for an identifier.
C16_SingleFlight ==
    \A m \in ModelNames :
        /\ Cardinality(InFlight(m)) <= 1
        /\ loaderOk[m] <= 1

----------------------------------------------------------------------------
(* C17 *)

\* the bytes the digests of the texts of the model hold
BytesSeen ==
    UNION {{Sha256Digest(text)[j] : j \in 1..32} : text \in HashedTexts}

\* C17: every raw fallback component is non-zero, its numerator 2*byte - 255
\* being odd, for every byte value 0..255; so the norm taken at line 59 is
\* strictly positive for every text, the empty string included, the test of
\* line 60 holds, and the vector appended is the raw vector divided by that
\* norm (never the raw vector itself).
C17_NeverZero ==
    /\ (pc = "line 48") => BytesSeen = 0..255
    /\ (pc \in {"line 53", "line 60", "line 63", "line 45"}) =>
          \A k \in DOMAIN last.embedding.num :
              /\ last.embedding.num[k] % 2 = 1
              /\ last.embedding.num[k] # 0
    /\ (pc \in {"line 60", "line 63", "line 45"}) =>
          /\ last.norm2 > 0
          /\ last.norm2 = SumSq(last.embedding.num, 1, Len(last.embedding.num))
    /\ Normalized =>
          /\ last.embedding.den2 = last.norm2
          /\ last.embedding # RawEmbedding(last.hash_bytes)
          /\ last.embedding.num = RawEmbedding(last.hash_bytes).num
    /\ (pc = "line 45") =>
          /\ last.embeddings = <<last.embedding>>
          /\ last.embeddings[1].den2 # 510 * 510

\* the vector appended for the empty string has been divided by its norm
C17_Witness ==
    /\ pc = "line 45"
    /\ last.text = ""
    /\ last.norm2 > 0
    /\ Len(last.embeddings) = 1
    /\ last.embeddings[1].den2 = last.norm2
    /\ last.embeddings[1].den2 # 510 * 510

----------------------------------------------------------------------------
(* C18 *)

\* a call of generate_embeddings that loaded its model and whose encode failed
LoadedThenFailed(l) ==
    /\ l.op = "generate_embeddings"
    /\ Successes(l.loader) = 1
    /\ EncodeFailedIn(l)

\* C18: a load is not rolled back by the encode failure that follows it: the
\* call that loaded a model and whose encode raised returns an error result
\* and leaves in the cache the handle it loaded; the next call of
\* generate_embeddings for that identifier, and any later one, encodes with
\* that handle and makes no constructor call.
C18_Step ==
    /\ LoadedThenFailed(last') =>
          /\ DOMAIN last'.outcome.value = ErrorLatencyKeys
          /\ last'.model_name \in DOMAIN MODEL_CACHE'
          /\ MODEL_CACHE'[last'.model_name] = last'.loader[1].made.value
          /\ last'.encodes[1].model = last'.loader[1].made.value
          /\ loaderOk'[last'.model_name] = 1
    /\ (LoadedThenFailed(last) /\ last'.op = "generate_embeddings"
           /\ last'.model_name = last.model_name) =>
          /\ last'.loader = <<>>
          /\ Len(last'.encodes) = 1
          /\ last'.encodes[1].model = last.loader[1].made.value
          /\ MODEL_CACHE' = MODEL_CACHE
          /\ constructed' = constructed
    /\ (last'.op = "generate_embeddings" /\ last'.model_name \in DOMAIN MODEL_CACHE) =>
          /\ last'.loader = <<>>
          /\ last'.encodes[1].model = MODEL_CACHE[last'.model_name]

C18_LoadKept == [][C18_Step]_vars

\* the state after a call that loaded its model and whose encode failed: the
\* error result is returned and the handle is cached
C18_Witness ==
    /\ LoadedThenFailed(last)
    /\ DOMAIN last.outcome.value = ErrorLatencyKeys
    /\ last.outcome.value.error = <<"encode failed">>
    /\ last.model_name \in DOMAIN MODEL_CACHE
    /\ MODEL_CACHE[last.model_name] = last.loader[1].made.value

====
